---- MODULE Spec2Model ----
(***************************************************************************)
(* Model of src/assistant/v2.ts: the AssistantV2 client (constructor,      *)
(* createSession, deleteSession, message) and the transport it delegates   *)
(* to (BaseService.createRequest).                                         *)
(*                                                                         *)
(* JavaScript values are records [t |-> <type tag>, v |-> <payload>]; an   *)
(* object's payload is a function from its own keys to values, so that     *)
(* "the key is present" and "the value is undefined" stay distinct.        *)
(***************************************************************************)
EXTENDS Integers, Sequences, FiniteSets, Bags, TLC

VARIABLES
  constructed,       \* an AssistantV2 object exists
  ctorOptions,       \* the options argument of the latest `new AssistantV2(options)`
  ctorThrown,        \* the latest construction threw
  _options,          \* this._options of the client
  _options0,         \* history: this._options when the constructor returned
  last,              \* the latest call: arguments, outcome, what it handed to the transport
  acceptOverridden,  \* history: a call before the latest one supplied its own Accept header
  pending,           \* bag of the requests handed to the transport and not yet completed
  delivered          \* the latest completion reported by the transport

vars == <<constructed, ctorOptions, ctorThrown, _options, _options0, last,
          acceptOverridden, pending, delivered>>

\* The transport holds at most this many uncompleted requests.
MaxPending == 2

(***************************************************************************)
(* JavaScript values                                                       *)
(***************************************************************************)
Undefined == [t |-> "undefined", v |-> <<>>]
Null == [t |-> "null", v |-> <<>>]
Str(s) == [t |-> "string", v |-> s]
Bool(b) == [t |-> "boolean", v |-> b]
Obj(f) == [t |-> "object", v |-> f]
Arr(s) == [t |-> "array", v |-> s]
Fn(name) == [t |-> "function", v |-> name]
EmptyObj == Obj(<<>>)
EmptyArr == Arr(<<>>)

\* obj[name]; reading a key an object does not have yields undefined
getProperty(obj, name) ==
  IF obj.t \in {"object", "array"} /\ name \in DOMAIN obj.v THEN obj.v[name] ELSE Undefined

\* the object's own keys
Keys(obj) == IF obj.t \in {"object", "array"} THEN DOMAIN obj.v ELSE {}

\* One source merged into the target, as the `extend` package does it: undefined
\* values are not copied; with deep, a plain object or an array is merged
\* recursively into the target's value of the same kind, or into a fresh one.
RECURSIVE extendOne(_, _, _)
extendOne(deep, target, options) ==
  LET tgt == IF target.t \in {"object", "array"} THEN target ELSE EmptyObj
      copied == {name \in Keys(options) : options.v[name] # Undefined}
      newValue(name) ==
        LET src == getProperty(tgt, name)
            copy == options.v[name]
        IN IF deep /\ copy.t = "array"
             THEN extendOne(deep, IF src.t = "array" THEN src ELSE EmptyArr, copy)
           ELSE IF deep /\ copy.t = "object"
             THEN extendOne(deep, IF src.t = "object" THEN src ELSE EmptyObj, copy)
           ELSE copy
  IN [t |-> tgt.t,
      v |-> [name \in Keys(tgt) \cup copied |->
               IF name \in copied THEN newValue(name) ELSE tgt.v[name]]]

\* extend([deep,] target, sources...): the value of target when extend returns
RECURSIVE extend(_, _, _)
extend(deep, target, sources) ==
  IF sources = <<>> THEN (IF target.t \in {"object", "array"} THEN target ELSE EmptyObj)
  ELSE extend(deep, extendOne(deep, target, Head(sources)), Tail(sources))

(***************************************************************************)
(* Inputs                                                                  *)
(***************************************************************************)
\* options.headers given to the constructor
CtorHeaders ==
  { Undefined,
    Obj("Accept" :> Str("text/plain")),
    Obj("X-Custom" :> Obj("a" :> Str("1"))) }

\* the options argument of the constructor; version may be absent
CtorOptionsSet ==
  { Obj([k \in {n \in {"version", "headers"} : a[n] # Undefined} |-> a[k]])
    : a \in [version : {Undefined, Str("2018-11-08")}, headers : CtorHeaders]
            \cup [version : {Str("2019-02-28")}, headers : {Undefined}] }

\* params.headers of a call
CallHeaders ==
  { Undefined,
    Obj("Accept" :> Str("text/plain")),
    Obj("X-Custom" :> Obj("b" :> Str("2"))) }

MessageInputs == { Undefined, Obj("text" :> Str("hi")) }
MessageContexts == { Undefined, Obj("global" :> Obj("system" :> Obj("turn_count" :> Str("1")))) }
AssistantIds == { Undefined, Str("A") }
SessionIds == { Undefined, Str("S") }
Callbacks == { Undefined, Fn("callback") }

\* the object a caller writes with the given fields, a field it does not supply left out
Literal(f) == Obj([k \in {n \in DOMAIN f : f[n] # Undefined} |-> f[k]])

(***************************************************************************)
(* Constructor                                                             *)
(***************************************************************************)
\* super(options): BaseService keeps the options, with an empty query string object
BaseServiceOptions(options) == extend(FALSE, Obj("qs" :> EmptyObj), <<options>>)

\* variant: the version check is left out
versionNeverChecked(opts) == FALSE

\* typeof this._options.version === 'undefined'
versionNotSpecified(opts) == getProperty(opts, "version") = Undefined

\* variant: the version is not copied into the query string
setQsVersionSkipped(opts, options) == opts

\* this._options.qs.version = options.version
setQsVersion(opts, options) ==
  Obj([opts.v EXCEPT !["qs"] =
         Obj([k \in Keys(opts.v["qs"]) \cup {"version"} |->
                IF k = "version" THEN getProperty(options, "version")
                ELSE opts.v["qs"].v[k]])])

NoCall == [op |-> "none"]

Init ==
  /\ constructed = FALSE
  /\ ctorOptions = Undefined
  /\ ctorThrown = FALSE
  /\ _options = Undefined
  /\ _options0 = Undefined
  /\ last = NoCall
  /\ acceptOverridden = FALSE
  /\ pending = EmptyBag
  /\ delivered = [done |-> FALSE]

Construct(options) ==
  /\ ~constructed
  /\ ctorOptions' = options
  /\ LET opts == BaseServiceOptions(options)
     IN IF versionNotSpecified(opts)
          THEN /\ ctorThrown' = TRUE
               /\ UNCHANGED <<constructed, _options, _options0>>
          ELSE /\ ctorThrown' = FALSE
               /\ constructed' = TRUE
               /\ _options' = setQsVersion(opts, options)
               /\ _options0' = setQsVersion(opts, options)
  /\ UNCHANGED <<last, acceptOverridden, pending, delivered>>

(***************************************************************************)
(* Pieces shared by the three operations                                   *)
(***************************************************************************)
\* variant: the caller's callback is dropped
_callbackAlwaysNoop(callback) == Fn("noop")

\* const _callback = (callback) ? callback : () => { /* noop */ };
_callback(callback) == IF callback # Undefined THEN callback ELSE Fn("noop")

\* new Error('Missing required parameters: ' + missing.join(', ')), or null when
\* every required parameter is present (not undefined)
getMissingParams(_params, requiredParams) ==
  LET missing == SelectSeq(requiredParams, LAMBDA r : getProperty(_params, r) = Undefined)
  IN IF missing = <<>> THEN Null ELSE [t |-> "error", v |-> missing]

\* What the caller observes of a call of fn(args): its own callback records the
\* arguments, the noop records nothing. Either returns undefined.
Invoke(fn, args) == IF fn = Fn("callback") THEN <<args>> ELSE <<>>

\* A url template: literal segments and {name} placeholders
Lit(s) == [k |-> "lit", s |-> s]
Param(s) == [k |-> "param", s |-> s]
Template(segs) == [t |-> "template", v |-> segs]

\* The transport fills the placeholders of the url from the path object
Substitute(url, path) ==
  [i \in DOMAIN url.v |->
     IF url.v[i].k = "param" THEN getProperty(path, url.v[i].s) ELSE Str(url.v[i].s)]

Stream == [t |-> "stream", v |-> <<>>]

\* return _callback(missingParams);
ReturnMissing(op, params, callback, missingParams) ==
  /\ last' = [op |-> op, params |-> params, callback |-> callback,
              missingParams |-> missingParams,
              cbArgs |-> Invoke(_callback(callback), <<missingParams>>),
              returned |-> Undefined, thrown |-> Undefined, requests |-> <<>>]
  /\ UNCHANGED <<_options, pending>>

\* return this.createRequest(parameters, _callback); the merge of the default
\* options wrote into `target`, which is this._options or an object of the call
createRequest(op, params, callback, parameters, target) ==
  /\ BagCardinality(pending) < MaxPending
  /\ last' = [op |-> op, params |-> params, callback |-> callback,
              missingParams |-> Null,
              cbArgs |-> <<>>, returned |-> Stream, thrown |-> Undefined,
              requests |-> <<[parameters |-> parameters, callback |-> _callback(callback)]>>]
  /\ pending' = pending (+) SetToBag({[callback |-> _callback(callback), supplied |-> callback]})
  /\ _options' = IF target = "this._options" THEN parameters.defaultOptions ELSE _options

\* the object a merge target refers to
Deref(target, opts) == IF target = "this._options" THEN opts ELSE EmptyObj

\* what every call leaves alone, and the history of Accept overrides
Frame ==
  /\ acceptOverridden' =
       (acceptOverridden \/
          (/\ last # NoCall
           /\ last.requests # <<>>
           /\ "Accept" \in Keys(getProperty(last.params, "headers"))))
  /\ UNCHANGED <<constructed, ctorOptions, ctorThrown, _options0, delivered>>

(***************************************************************************)
(* createSession                                                           *)
(***************************************************************************)
\* variant: nothing is required, the validation never fails
createSessionRequiredParamsNone == <<>>

createSessionRequiredParams == <<"assistant_id">>

createSessionPath(_params) == Obj("assistant_id" :> getProperty(_params, "assistant_id"))

createSessionOptions(_params) ==
  Obj("url" :> Template(<<Lit("v2"), Lit("assistants"), Param("assistant_id"), Lit("sessions")>>)
      @@ "method" :> Str("POST")
      @@ "path" :> createSessionPath(_params))

createSessionHeaders(_params) ==
  extend(TRUE, Obj("Accept" :> Str("application/json")
                   @@ "Content-Type" :> Str("application/json")),
         <<getProperty(_params, "headers")>>)

\* variant: extend(true, this._options, ...) merges into the client's own options
createSessionTargetThis == "this._options"

\* the first object argument of extend(true, {}, this._options, ...)
createSessionTarget == "fresh"

createSessionDefaultOptions(opts, _params) ==
  extend(TRUE, Deref(createSessionTarget, opts),
         <<opts, Obj("headers" :> createSessionHeaders(_params))>>)

createSession(params, callback) ==
  /\ constructed
  /\ LET _params == extend(FALSE, EmptyObj, <<params>>)
         missingParams == getMissingParams(_params, createSessionRequiredParams)
     IN IF missingParams # Null
          THEN ReturnMissing("createSession", params, callback, missingParams)
          ELSE createRequest("createSession", params, callback,
                 [options |-> createSessionOptions(_params),
                  defaultOptions |-> createSessionDefaultOptions(_options, _params)],
                 createSessionTarget)
  /\ Frame

(***************************************************************************)
(* deleteSession                                                           *)
(***************************************************************************)
deleteSessionRequiredParams == <<"assistant_id", "session_id">>

\* variant: the two identifiers are exchanged
deleteSessionPathSwapped(_params) ==
  Obj("assistant_id" :> getProperty(_params, "session_id")
      @@ "session_id" :> getProperty(_params, "assistant_id"))

deleteSessionPath(_params) ==
  Obj("assistant_id" :> getProperty(_params, "assistant_id")
      @@ "session_id" :> getProperty(_params, "session_id"))

deleteSessionOptions(_params) ==
  Obj("url" :> Template(<<Lit("v2"), Lit("assistants"), Param("assistant_id"),
                          Lit("sessions"), Param("session_id")>>)
      @@ "method" :> Str("DELETE")
      @@ "path" :> deleteSessionPath(_params))

deleteSessionHeaders(_params) ==
  extend(TRUE, Obj("Accept" :> Str("application/json")),
         <<getProperty(_params, "headers")>>)

\* variant: extend(true, this._options, ...) merges into the client's own options
deleteSessionTargetThis == "this._options"

deleteSessionTarget == "fresh"

deleteSessionDefaultOptions(opts, _params) ==
  extend(TRUE, Deref(deleteSessionTarget, opts),
         <<opts, Obj("headers" :> deleteSessionHeaders(_params))>>)

deleteSession(params, callback) ==
  /\ constructed
  /\ LET _params == extend(FALSE, EmptyObj, <<params>>)
         missingParams == getMissingParams(_params, deleteSessionRequiredParams)
     IN IF missingParams # Null
          THEN ReturnMissing("deleteSession", params, callback, missingParams)
          ELSE createRequest("deleteSession", params, callback,
                 [options |-> deleteSessionOptions(_params),
                  defaultOptions |-> deleteSessionDefaultOptions(_options, _params)],
                 deleteSessionTarget)
  /\ Frame

(***************************************************************************)
(* message                                                                 *)
(***************************************************************************)
\* variant: session_id is not checked
messageRequiredParamsAssistantOnly == <<"assistant_id">>

messageRequiredParams == <<"assistant_id", "session_id">>

\* variant: a field the caller did not supply is sent as null
messageBodyNullPlaceholder(_params) ==
  Obj([k \in {"input", "context"} |->
         IF getProperty(_params, k) = Undefined THEN Null ELSE getProperty(_params, k)])

\* const body = { 'input': _params.input, 'context': _params.context };
messageBody(_params) ==
  Obj("input" :> getProperty(_params, "input")
      @@ "context" :> getProperty(_params, "context"))

messagePath(_params) ==
  Obj("assistant_id" :> getProperty(_params, "assistant_id")
      @@ "session_id" :> getProperty(_params, "session_id"))

messageOptions(_params) ==
  Obj("url" :> Template(<<Lit("v2"), Lit("assistants"), Param("assistant_id"),
                          Lit("sessions"), Param("session_id"), Lit("message")>>)
      @@ "method" :> Str("POST")
      @@ "json" :> Bool(TRUE)
      @@ "body" :> messageBody(_params)
      @@ "path" :> messagePath(_params))

messageHeaders(_params) ==
  extend(TRUE, Obj("Accept" :> Str("application/json")
                   @@ "Content-Type" :> Str("application/json")),
         <<getProperty(_params, "headers")>>)

messageTarget == "fresh"

messageDefaultOptions(opts, _params) ==
  extend(TRUE, Deref(messageTarget, opts),
         <<opts, Obj("headers" :> messageHeaders(_params))>>)

message(params, callback) ==
  /\ constructed
  /\ LET _params == extend(FALSE, EmptyObj, <<params>>)
         missingParams == getMissingParams(_params, messageRequiredParams)
     IN IF missingParams # Null
          THEN ReturnMissing("message", params, callback, missingParams)
          ELSE createRequest("message", params, callback,
                 [options |-> messageOptions(_params),
                  defaultOptions |-> messageDefaultOptions(_options, _params)],
                 messageTarget)
  /\ Frame

(***************************************************************************)
(* Transport                                                               *)
(***************************************************************************)
\* what the transport may report to the callback it was given: (error, body, response)
Reports ==
  { <<[t |-> "error", v |-> <<"503">>], Obj("error" :> Str("unavailable")), Obj("statusCode" :> Str("503"))>>,
    <<Null, Obj("session_id" :> Str("S")), Obj("statusCode" :> Str("200"))>> }

\* the transport completes an uncompleted request and calls the callback it was given
TransportReport(request, args) ==
  /\ BagIn(request, pending)
  /\ delivered' = [done |-> TRUE,
                   supplied |-> request.supplied,
                   callback |-> request.callback,
                   reported |-> args,
                   received |-> Invoke(request.callback, args)]
  /\ pending' = pending (-) SetToBag({request})
  /\ UNCHANGED <<constructed, ctorOptions, ctorThrown, _options, _options0, last,
                 acceptOverridden>>

(***************************************************************************)
(* Calls a caller can make                                                 *)
(***************************************************************************)
CreateSessionParamsSet ==
  { Literal("assistant_id" :> a @@ "headers" :> h) : a \in AssistantIds, h \in CallHeaders }

DeleteSessionParamsSet ==
  { Literal("assistant_id" :> a @@ "session_id" :> s @@ "headers" :> h)
    : a \in AssistantIds, s \in SessionIds, h \in CallHeaders }

MessageParamsSet ==
  { Literal("assistant_id" :> as[1] @@ "session_id" :> as[2] @@ "input" :> ic[1]
            @@ "context" :> ic[2] @@ "headers" :> h)
    : as \in AssistantIds \X SessionIds, ic \in MessageInputs \X MessageContexts,
      h \in CallHeaders }

Next ==
  \/ \E options \in CtorOptionsSet : Construct(options)
  \/ \E params \in CreateSessionParamsSet, callback \in Callbacks : createSession(params, callback)
  \/ \E params \in DeleteSessionParamsSet, callback \in Callbacks : deleteSession(params, callback)
  \/ \E params \in MessageParamsSet, callback \in Callbacks : message(params, callback)
  \/ \E request \in BagToSet(pending), args \in Reports : TransportReport(request, args)

Spec == Init /\ [][Next]_vars

(***************************************************************************)
(* Vocabulary of the properties                                            *)
(***************************************************************************)
Called == last # NoCall

\* the required inputs of the contract table
RequiredInputs(op) ==
  IF op = "createSession" THEN {"assistant_id"} ELSE {"assistant_id", "session_id"}

\* the required inputs the caller of the latest call left out
AbsentInputs == {f \in RequiredInputs(last.op) : getProperty(last.params, f) = Undefined}

\* the latest call handed a request to the transport
Issued == Called /\ last.requests # <<>>

IssuedParameters == last.requests[1].parameters
IssuedOptions == IssuedParameters.options
IssuedHeaders == getProperty(IssuedParameters.defaultOptions, "headers")
CallerHeaders == getProperty(last.params, "headers")
ConstructionHeaders == getProperty(ctorOptions, "headers")

\* the elements of a sequence
Range(seq) == {seq[i] : i \in DOMAIN seq}

(***************************************************************************)
(* Properties                                                              *)
(***************************************************************************)

\* C1: a call with required fields absent yields a missing-parameter error that
\* names exactly the absent required fields, each once, and hands nothing to the
\* transport; a call with none absent yields no such error.
C1_MissingParamsNamedExactly ==
  Called =>
    IF AbsentInputs # {}
      THEN /\ last.missingParams.t = "error"
           /\ Range(last.missingParams.v) = AbsentInputs
           /\ Len(last.missingParams.v) = Cardinality(AbsentInputs)
           /\ last.requests = <<>>
      ELSE last.missingParams = Null

C1_Witness ==
  /\ Called
  /\ last.op = "deleteSession"
  /\ AbsentInputs = {"assistant_id", "session_id"}
  /\ last.missingParams.t = "error"
  /\ last.missingParams.v = <<"assistant_id", "session_id">>
  /\ last.requests = <<>>

\* C2: every missing-parameter error reaches the caller, with or without a
\* callback: as first argument of its callback, as an exception or as the
\* returned value.
C2_MissingParamsSurfaced ==
  (Called /\ AbsentInputs # {}) =>
     \/ \E i \in DOMAIN last.cbArgs : last.cbArgs[i][1].t = "error"
     \/ last.thrown.t = "error"
     \/ last.returned.t = "error"

\* C3: with every required identifier present, the request has the method and
\* the url of the operation's row, the url filled from the path object gives the
\* row's path with the caller's identifiers, and the path object holds exactly
\* the caller's identifiers.
C3_MethodAndPath ==
  (Called /\ AbsentInputs = {}) =>
    /\ Issued
    /\ LET a == getProperty(last.params, "assistant_id")
           s == getProperty(last.params, "session_id")
           method == getProperty(IssuedOptions, "method")
           path == getProperty(IssuedOptions, "path")
           filled == Substitute(getProperty(IssuedOptions, "url"), path)
       IN CASE last.op = "createSession" ->
                 /\ method = Str("POST")
                 /\ filled = <<Str("v2"), Str("assistants"), a, Str("sessions")>>
                 /\ path = Obj("assistant_id" :> a)
            [] last.op = "deleteSession" ->
                 /\ method = Str("DELETE")
                 /\ filled = <<Str("v2"), Str("assistants"), a, Str("sessions"), s>>
                 /\ path = Obj("assistant_id" :> a @@ "session_id" :> s)
            [] last.op = "message" ->
                 /\ method = Str("POST")
                 /\ filled = <<Str("v2"), Str("assistants"), a, Str("sessions"), s,
                               Str("message")>>
                 /\ path = Obj("assistant_id" :> a @@ "session_id" :> s)

C3_Witness ==
  /\ Issued
  /\ last.op = "deleteSession"
  /\ getProperty(IssuedOptions, "method") = Str("DELETE")
  /\ Substitute(getProperty(IssuedOptions, "url"), getProperty(IssuedOptions, "path"))
       = <<Str("v2"), Str("assistants"), Str("A"), Str("sessions"), Str("S")>>

\* the optional body fields the caller of the latest call supplied
SuppliedBodyFields == {k \in {"input", "context"} : getProperty(last.params, k) # Undefined}

\* C4 (as claimed): the body of a message request has the key input iff input
\* was supplied and the key context iff context was supplied, with the caller's
\* values; the other two operations' requests have no body.
C4_BodyKeysOnlyIfSupplied ==
  Issued =>
    IF last.op = "message"
      THEN /\ Keys(getProperty(IssuedOptions, "body")) = SuppliedBodyFields
           /\ \A k \in SuppliedBodyFields :
                getProperty(IssuedOptions, "body").v[k] = last.params.v[k]
      ELSE "body" \notin Keys(IssuedOptions)

\* C4 (amended): the body of a message request always has both keys input and
\* context; a supplied field has the caller's value and a field not supplied has
\* the value undefined, never null or an empty placeholder, so the keys with a
\* defined value are exactly the supplied fields; the other two operations'
\* requests have no body.
C4_BodyUndefinedUnlessSupplied ==
  Issued =>
    IF last.op = "message"
      THEN LET body == getProperty(IssuedOptions, "body")
           IN /\ Keys(body) = {"input", "context"}
              /\ \A k \in SuppliedBodyFields : body.v[k] = last.params.v[k]
              /\ \A k \in {"input", "context"} \ SuppliedBodyFields : body.v[k] = Undefined
              /\ {k \in Keys(body) : body.v[k] # Undefined} = SuppliedBodyFields
      ELSE "body" \notin Keys(IssuedOptions)

C4_Witness ==
  /\ Issued
  /\ last.op = "message"
  /\ SuppliedBodyFields = {"input"}
  /\ getProperty(IssuedOptions, "body")
       = Obj("input" :> Obj("text" :> Str("hi")) @@ "context" :> Undefined)

\* C5: for every header key the caller supplies in a call, the request's header
\* of that key is exactly the caller's value, not a combination with the default
\* or construction-time value; the other keys keep their default value.
C5_CallerHeaderReplaces ==
  Issued =>
    /\ \A k \in Keys(CallerHeaders) : getProperty(IssuedHeaders, k) = CallerHeaders.v[k]
    /\ ("Accept" \notin Keys(CallerHeaders)) =>
          getProperty(IssuedHeaders, "Accept") = Str("application/json")

\* C6: the client's stored options stay what the constructor left, whatever
\* calls were made, and a call without an Accept header of its own gets
\* Accept: application/json also after a call that overrode it.
C6_OptionsNotRetained ==
  /\ constructed => _options = _options0
  /\ (Issued /\ "Accept" \notin Keys(CallerHeaders)) =>
        getProperty(IssuedHeaders, "Accept") = Str("application/json")

C6_Witness ==
  /\ acceptOverridden
  /\ Issued
  /\ "Accept" \notin Keys(CallerHeaders)
  /\ getProperty(IssuedHeaders, "Accept") = Str("application/json")
  /\ _options = _options0

\* C7: a construction whose options have no version throws and leaves no client;
\* calls, requests and completions exist only after a construction that was
\* given a version and did not throw.
C7_VersionRequired ==
  /\ (ctorOptions # Undefined /\ getProperty(ctorOptions, "version") = Undefined) =>
        (ctorThrown /\ ~constructed)
  /\ (Called \/ pending # EmptyBag \/ delivered.done) =>
        (constructed /\ ~ctorThrown /\ getProperty(ctorOptions, "version") # Undefined)

C7_Witness ==
  /\ ctorOptions # Undefined
  /\ getProperty(ctorOptions, "version") = Undefined
  /\ ctorThrown
  /\ ~constructed
  /\ ~Called
  /\ pending = EmptyBag

\* C8: every request handed to the transport carries the query parameter
\* version with the value given to the constructor.
C8_VersionInEveryRequest ==
  Issued =>
    /\ getProperty(ctorOptions, "version") # Undefined
    /\ getProperty(getProperty(IssuedParameters.defaultOptions, "qs"), "version")
         = getProperty(ctorOptions, "version")

C8_Witness ==
  /\ Issued
  /\ delivered.done
  /\ getProperty(getProperty(IssuedParameters.defaultOptions, "qs"), "version")
       = Str("2019-02-28")

\* C9: every header key given to the constructor is in every request with the
\* construction-time value, unless the call supplied that key itself.
C9_ConstructionHeadersInEveryRequest ==
  Issued =>
    \A k \in Keys(ConstructionHeaders) \ Keys(CallerHeaders) :
      getProperty(IssuedHeaders, k) = ConstructionHeaders.v[k]

\* C10: the callback handed to the transport for a call that supplied one is
\* the caller's own, so whatever the transport reports (error, body, response)
\* reaches the caller's callback once, with the reported arguments unchanged.
C10_TransportResultPassedThrough ==
  /\ \A request \in BagToSet(pending) :
       request.supplied # Undefined => request.callback = request.supplied
  /\ (Issued /\ last.callback # Undefined) => last.requests[1].callback = last.callback
  /\ (delivered.done /\ delivered.supplied # Undefined) =>
       delivered.received = <<delivered.reported>>

C10_Witness ==
  /\ delivered.done
  /\ delivered.supplied = Fn("callback")
  /\ delivered.reported[1].t = "error"
  /\ delivered.received = <<delivered.reported>>

\* C11: with no headers from the caller and none from the constructor, a
\* request's headers are Accept: application/json, and Content-Type:
\* application/json exactly when the request carries a body.
C11_DefaultHeadersFollowBody ==
  (Issued /\ CallerHeaders = Undefined /\ ConstructionHeaders = Undefined) =>
    IssuedHeaders =
      IF "body" \in Keys(IssuedOptions)
        THEN Obj("Accept" :> Str("application/json")
                 @@ "Content-Type" :> Str("application/json"))
        ELSE Obj("Accept" :> Str("application/json"))

\* the request descriptor the call op(params) builds when it is the only call
\* made on the client as constructed
AloneParameters(op, params) ==
  LET _params == extend(FALSE, EmptyObj, <<params>>)
  IN CASE op = "createSession" ->
            [options |-> createSessionOptions(_params),
             defaultOptions |-> createSessionDefaultOptions(_options0, _params)]
       [] op = "deleteSession" ->
            [options |-> deleteSessionOptions(_params),
             defaultOptions |-> deleteSessionDefaultOptions(_options0, _params)]
       [] op = "message" ->
            [options |-> messageOptions(_params),
             defaultOptions |-> messageDefaultOptions(_options0, _params)]

\* C12: whatever calls were made before and whatever requests are still in
\* flight, a call hands the transport the descriptor and the callback it hands
\* when run alone, and it leaves the other calls' uncompleted requests as they are.
C12_CallsDoNotInterfere ==
  /\ [](Issued =>
          /\ last.requests[1].parameters = AloneParameters(last.op, last.params)
          /\ last.requests[1].callback =
               (IF last.callback # Undefined THEN last.callback ELSE Fn("noop")))
  /\ [][(last' # last \/ BagCardinality(pending') > BagCardinality(pending))
          => pending \sqsubseteq pending']_vars

C12_Witness ==
  /\ Issued
  /\ BagCardinality(pending) = 2
  /\ acceptOverridden
  /\ last.op = "message"
  /\ CallerHeaders = Undefined
  /\ last.requests[1].parameters = AloneParameters(last.op, last.params)

\* C13: a call with every required field present hands exactly one request to
\* the transport, after the validation found nothing missing, and calls no
\* callback itself; a call with a field missing hands none and calls a supplied
\* callback exactly once, with the error, within the call. The requests in
\* flight grow only by the one request of such a call, and a completion the
\* transport reports, whatever it is, adds no request.
C13_OneRequestAfterValidation ==
  /\ [](Called =>
          IF AbsentInputs = {}
            THEN /\ Len(last.requests) = 1
                 /\ last.missingParams = Null
                 /\ last.cbArgs = <<>>
            ELSE /\ last.requests = <<>>
                 /\ last.missingParams.t = "error"
                 /\ last.callback # Undefined => last.cbArgs = << <<last.missingParams>> >>)
  /\ [][/\ BagCardinality(pending') <= BagCardinality(pending) + 1
        /\ BagCardinality(pending') > BagCardinality(pending) =>
             /\ Issued'
             /\ pending' = pending (+) SetToBag({[callback |-> last'.requests[1].callback,
                                                   supplied |-> last'.callback]})
        /\ BagCardinality(pending') < BagCardinality(pending) =>
             /\ last' = last
             /\ pending' \sqsubseteq pending
             /\ BagCardinality(pending') = BagCardinality(pending) - 1]_vars

C13_Witness ==
  /\ Issued
  /\ Len(last.requests) = 1
  /\ delivered.done
  /\ delivered.reported[1].t = "error"
  /\ pending = EmptyBag

====
